---- MODULE Spec2Model ----
(***************************************************************************)
(* PIX payment code codec and QR-code render cache of Delta Silk Print.    *)
(*                                                                         *)
(* Models generatePixCode, generatePixQRCode (with the module-level        *)
(* qrCodeCache), calculateCRC16 and validatePixCode.                       *)
(*                                                                         *)
(* A JavaScript string is a sequence of UTF-16 code units (naturals in     *)
(* 0..65535); the bitwise operators work on 32-bit patterns.               *)
(***************************************************************************)
EXTENDS Integers, Sequences, FiniteSets, TLC

VARIABLES
    \* ---- calculateCRC16 run step by step
    data,        \* the argument string
    idx,         \* loop variable i, 1-based: next character to process
    crc,         \* the local register crc (32-bit pattern <<hi, lo>>)
    crcPc,       \* "loop" | "done"
    crcResult,   \* the returned number once crcPc = "done"
    refCrc       \* history: the 16-bit reference register on the same prefix

crcVars == <<data, idx, crc, crcPc, crcResult, refCrc>>

VARIABLES
    \* ---- generatePixCode / validatePixCode
    amount,      \* argument amount of generatePixCode
    pixKeyEnv,   \* process.env.PIX_KEY (<<>>: unset or empty)
    randBytes,   \* what randomBytes(16) returns in this call
    pixCode,     \* the string generatePixCode returned, later as altered
    pixPc,       \* "input" | "generated" | "validated" | "tampered" | "revalidated"
    valid,       \* what the last validatePixCode(pixCode) returned
    tamper       \* history: position and former character of the altered one

pixVars == <<amount, pixKeyEnv, randBytes, pixCode, pixPc, valid, tamper>>

VARIABLES
    \* ---- generatePixQRCode and the module-level qrCodeCache
    qrCodeCache, \* the Map, as its entries [key, value] in iteration order
    pending,     \* the calls suspended at "await QRCode.toDataURL(...)"
    nCalls,      \* calls of generatePixQRCode made so far (the last call's id)
    lastOp,      \* history: what the last step of a call did (hadHit: the
                 \* evicted entry had a cache hit while it was cached)
    renders,     \* history: renders[k], times the renderer was invoked for k
    insertedAt,  \* history: insertedAt[k], when k last entered the cache (0: never)
    clock,       \* history: number of entries that ever entered the cache
    hitKeys,     \* history: cached keys that had a cache hit since they entered
    failedKeys,  \* history: keys whose last finished render failed, not called since
    inOrder      \* history: so far only distinct payloads rendered one after another

cacheVars == <<qrCodeCache, pending, nCalls, lastOp, renders, insertedAt, clock,
               hitKeys, failedKeys, inOrder>>

vars == <<crcVars, pixVars, cacheVars>>

(***************************************************************************)
(* Bounds of the exploration.                                              *)
(***************************************************************************)
MaxCrcLen == 3

\* calls of generatePixQRCode in one behaviour
MaxCalls == 3

(***************************************************************************)
(* 32-bit integer operators of JavaScript.  A 32-bit pattern is kept as    *)
(* its two 16-bit halves <<hi, lo>> (TLC's integers are 32-bit signed, so  *)
(* 2^32 itself cannot be written): hi is bits 16..31, lo is bits 0..15.    *)
(***************************************************************************)
Half == 2 ^ 16

\* a ^ b on naturals, bit by bit
RECURSIVE XorBits(_, _)
XorBits(a, b) ==
    IF b = 0 THEN a
    ELSE IF a = 0 THEN b
    ELSE ((a + b) % 2) + 2 * XorBits(a \div 2, b \div 2)

\* a ^ b on bytes, tabulated once
XorByte == [a \in 0 .. 255 |-> [b \in 0 .. 255 |-> XorBits(a, b)]]

\* a ^ b on 16-bit naturals
Xor(a, b) ==
    IF b = 0 THEN a
    ELSE 256 * XorByte[a \div 256][b \div 256] + XorByte[a % 256][b % 256]

\* ToInt32 of a natural below 2^31
Int32(n) == <<n \div Half, n % Half>>

\* a ^ b
Xor32(a, b) == <<Xor(a[1], b[1]), Xor(a[2], b[2])>>

\* a << 1  (bit 31 is lost)
Shl1(a) == <<(2 * a[1] + a[2] \div 32768) % Half, (2 * a[2]) % Half>>

\* a << n for 0 <= n <= 15  (the bits shifted past bit 31 are lost)
ShiftLeft(a, n) ==
    <<(a[1] * (2 ^ n) + a[2] \div (2 ^ (16 - n))) % Half, (a[2] * (2 ^ n)) % Half>>

\* a & 0x8000 is non-zero
Bit15(a) == a[2] >= 32768

\* a & 0xFFFF
Low16(a) == a[2]

(***************************************************************************)
(* calculateCRC16                                                          *)
(***************************************************************************)
CrcInit == 65535        \* 0xFFFF

polynomial == 4129      \* 0x1021

\* a bug: the test reads bit 16 (0x10000) instead of bit 15
CrcShiftWrongBit(c) ==
    IF c[1] % 2 = 1 THEN Xor32(Shl1(c), Int32(polynomial)) ELSE Shl1(c)

\* one pass of the inner loop body: if (crc & 0x8000) ... else ...
CrcShift(c) ==
    IF Bit15(c) THEN Xor32(Shl1(c), Int32(polynomial)) ELSE Shl1(c)

\* for (let j = 0; j < 8; j++) { ... }
RECURSIVE CrcBits(_, _)
CrcBits(c, j) == IF j >= 8 THEN c ELSE CrcBits(CrcShift(c), j + 1)

\* the outer loop body for one character code: crc ^= code << 8; inner loop
CrcChar(c, code) == CrcBits(Xor32(c, ShiftLeft(Int32(code), 8)), 0)

\* for (let i = 0; i < data.length; i++) { ... } over the characters
\* s[from] .. s[to], left to right, starting from register c.  The range is
\* folded in two halves, the left one first, so that the evaluation nests
\* log(n) deep and not n deep; the tests "left = left" are always true and
\* make TLC evaluate the left half before the right one starts.
RECURSIVE CrcLoop(_, _, _, _)
CrcLoop(s, from, to, c) ==
    IF from > to THEN c
    ELSE IF from = to THEN CrcChar(c, s[from])
    ELSE LET mid  == (from + to) \div 2
             left == CrcLoop(s, from, mid, c)
         IN  IF left = left THEN CrcLoop(s, mid + 1, to, left) ELSE left

\* a bug: the loop starts at i = 1 and skips the first character
calculateCRC16SkipsFirst(s) == Low16(CrcLoop(s, 2, Len(s), Int32(CrcInit)))

calculateCRC16(s) == Low16(CrcLoop(s, 1, Len(s), Int32(CrcInit)))

(***************************************************************************)
(* Reference CRC-16/CCITT-FALSE: 16-bit register, masked after every step, *)
(* character code truncated to 8 bits.                                     *)
(***************************************************************************)
RefShift(r) ==
    IF r >= 32768 THEN Xor((2 * r) % 65536, 4129) ELSE (2 * r) % 65536

RECURSIVE RefBits(_, _)
RefBits(r, j) == IF j = 0 THEN r ELSE RefBits(RefShift(r), j - 1)

RefChar(r, code) == RefBits(Xor(r, (code % 256) * 256) % 65536, 8)

RECURSIVE RefCrc16(_)
RefCrc16(s) ==
    IF s = <<>> THEN 65535
    ELSE LET r == RefCrc16(SubSeq(s, 1, Len(s) - 1))
         IN  IF r = r THEN RefChar(r, s[Len(s)]) ELSE 0

(***************************************************************************)
(* JavaScript strings: sequences of UTF-16 code units.                     *)
(***************************************************************************)
IndexIn(str, ch) == CHOOSE i \in 1 .. Len(str) : SubSeq(str, i, i) = ch

Occurs(str, ch) == \E i \in 1 .. Len(str) : SubSeq(str, i, i) = ch

\* the code unit of a one-character literal (the characters the source uses)
CodeOf(ch) ==
    IF Occurs("0123456789", ch) THEN 47 + IndexIn("0123456789", ch)
    ELSE IF Occurs("ABCDEFGHIJKLMNOPQRSTUVWXYZ", ch)
         THEN 64 + IndexIn("ABCDEFGHIJKLMNOPQRSTUVWXYZ", ch)
    ELSE IF Occurs("abcdefghijklmnopqrstuvwxyz", ch)
         THEN 96 + IndexIn("abcdefghijklmnopqrstuvwxyz", ch)
    ELSE IF ch = " " THEN 32
    ELSE IF ch = "-" THEN 45
    ELSE IF ch = "." THEN 46
    ELSE 64    \* "@"

\* a string literal of the source as its code units
Str(lit) == [i \in 1 .. Len(lit) |-> CodeOf(SubSeq(lit, i, i))]

\* a string of n copies of one code unit
Repeat(code, n) == [i \in 1 .. n |-> code]

\* Array.prototype.join("")
RECURSIVE Join(_)
Join(parts) == IF parts = <<>> THEN <<>> ELSE Head(parts) \o Join(Tail(parts))

\* String.prototype.padStart(targetLength, padString) for a one-character pad
PadStart(s, targetLength, pad) ==
    IF Len(s) >= targetLength THEN s
    ELSE Repeat(pad, targetLength - Len(s)) \o s

\* String.prototype.substring(start, end), 0-based, end exclusive
Substring(s, start, end) ==
    LET lo == IF start < 0 THEN 0 ELSE IF start > Len(s) THEN Len(s) ELSE start
        hi == IF end < 0 THEN 0 ELSE IF end > Len(s) THEN Len(s) ELSE end
    IN  IF lo <= hi THEN SubSeq(s, lo + 1, hi) ELSE SubSeq(s, hi + 1, lo)

\* String.prototype.toUpperCase() (on the ASCII letters)
ToUpperCase(s) ==
    [i \in 1 .. Len(s) |-> IF s[i] >= 97 /\ s[i] <= 122 THEN s[i] - 32 ELSE s[i]]

\* the digit d of radix 10 or 16 as a lowercase character
DigitChar(d) == IF d < 10 THEN 48 + d ELSE 87 + d

\* Number.prototype.toString(radix) of a natural number
RECURSIVE NatToString(_, _)
NatToString(n, radix) ==
    IF n < radix THEN <<DigitChar(n)>>
    ELSE Append(NatToString(n \div radix, radix), DigitChar(n % radix))

\* String(n) of a natural number
String(n) == NatToString(n, 10)

(***************************************************************************)
(* Amounts.  The parameter is string | number.  A number is kept as its    *)
(* value in hundredths (1050 is 10.5), which covers the decimal amounts    *)
(* with at most two fraction digits.                                       *)
(***************************************************************************)
StringAmount(s) == [kind |-> "string", str |-> s, num |-> 0]

NumberAmount(h) == [kind |-> "number", str |-> <<>>, num |-> h]

\* Number.prototype.toString() of h / 100: shortest decimal notation
NumberToString(h) ==
    LET a     == IF h < 0 THEN 0 - h ELSE h
        sign  == IF h < 0 THEN Str("-") ELSE <<>>
        whole == String(a \div 100)
        frac  == a % 100
        tail  == IF frac = 0 THEN <<>>
                 ELSE IF frac % 10 = 0 THEN Str(".") \o String(frac \div 10)
                 ELSE Str(".") \o PadStart(String(frac), 2, 48)
    IN  sign \o whole \o tail

(***************************************************************************)
(* generatePixCode                                                         *)
(***************************************************************************)
DefaultPixKey == Str("contato@deltasilkprint.com.br")

merchantName == Str("DELTA SILK PRINT")

merchantCity == Str("SAO PAULO")

\* process.env.PIX_KEY || "contato@deltasilkprint.com.br"
\* (an unset variable and an empty one are both falsy: both are <<>> here)
PixKeyOf(env) == IF env = <<>> THEN DefaultPixKey ELSE env

\* Buffer.prototype.toString('hex'): two lowercase digits per byte
RECURSIVE BytesToHex(_)
BytesToHex(bytes) ==
    IF bytes = <<>> THEN <<>>
    ELSE PadStart(NatToString(Head(bytes), 16), 2, 48) \o BytesToHex(Tail(bytes))

\* randomBytes(16).toString('hex').substring(0, 25)
TxIdOf(bytes) == Substring(BytesToHex(bytes), 0, 25)

\* typeof amount === 'string' ? amount : amount.toString()
AmountStrOf(amt) ==
    IF amt.kind = "string" THEN amt.str ELSE NumberToString(amt.num)

\* the array literal of the source, element by element
PayloadParts(amountStr, pixKey, txId) == <<
    Str("00"), Str("02"), Str("01"), Str("12"),
    Str("26"), PadStart(String(Len(pixKey) + 19), 2, 48),
    Str("0014"), Str("br.gov.bcb.pix"),
    Str("01"), PadStart(String(Len(pixKey)), 2, 48), pixKey,
    Str("52"), Str("0000"),
    Str("53"), Str("986"),
    Str("54"), PadStart(String(Len(amountStr)), 2, 48), amountStr,
    Str("58"), Str("02"), Str("BR"),
    Str("59"), PadStart(String(Len(merchantName)), 2, 48), merchantName,
    Str("60"), PadStart(String(Len(merchantCity)), 2, 48), merchantCity,
    Str("62"), PadStart(String(Len(txId) + 4), 2, 48),
        Str("05"), PadStart(String(Len(txId)), 2, 48), txId,
    Str("63"), Str("04") >>

\* crc.toString(16).toUpperCase().padStart(4, '0')
CrcHex(c) == PadStart(ToUpperCase(NatToString(c, 16)), 4, 48)

\* a bug: the checksum is computed before the "6304" header is appended
generatePixCodeCrcBeforeHeader(amt, description, env, bytes) ==
    LET parts   == PayloadParts(AmountStrOf(amt), PixKeyOf(env), TxIdOf(bytes))
        body    == Join(SubSeq(parts, 1, Len(parts) - 2))
    IN  Join(parts) \o CrcHex(calculateCRC16(body))

\* generatePixCode(amount, description) with the environment it reads:
\* env is process.env.PIX_KEY, bytes is what randomBytes(16) returns.
\* description is not used by the code.
generatePixCode(amt, description, env, bytes) ==
    LET amountStr == AmountStrOf(amt)
        pixKey    == PixKeyOf(env)
        txId      == TxIdOf(bytes)
        payload   == Join(PayloadParts(amountStr, pixKey, txId))
    IN  payload \o CrcHex(calculateCRC16(payload))

(***************************************************************************)
(* validatePixCode                                                         *)
(***************************************************************************)
\* a bug: the recomputed checksum is not upper-cased before the comparison
validatePixCodeLowerCase(code) ==
    IF Len(code) < 10 THEN FALSE
    ELSE LET payload     == Substring(code, 0, Len(code) - 4)
             providedCrc == Substring(code, Len(code) - 4, Len(code))
         IN  providedCrc = PadStart(NatToString(calculateCRC16(payload), 16), 4, 48)

\* a bug: the length guard is missing
validatePixCodeNoGuard(code) ==
    LET payload     == Substring(code, 0, Len(code) - 4)
        providedCrc == Substring(code, Len(code) - 4, Len(code))
    IN  providedCrc = CrcHex(calculateCRC16(payload))

validatePixCode(code) ==
    IF Len(code) < 10 THEN FALSE
    ELSE LET payload     == Substring(code, 0, Len(code) - 4)
             providedCrc == Substring(code, Len(code) - 4, Len(code))
         IN  providedCrc = CrcHex(calculateCRC16(payload))

(***************************************************************************)
(* qrCodeCache: a Map<string, string>.  A Map iterates in insertion order; *)
(* set() on a present key replaces the value where the entry is.           *)
(* A payload is named by a number, a rendered data URL by a number too     *)
(* (the id of the call whose render produced it).                          *)
(***************************************************************************)
Cap == 100

MapKeys(m) == {m[i].key : i \in 1 .. Len(m)}

\* qrCodeCache.has(k)
MapHas(m, k) == k \in MapKeys(m)

\* qrCodeCache.get(k), for a present key
MapGet(m, k) == (CHOOSE e \in {m[i] : i \in 1 .. Len(m)} : e.key = k).value

\* qrCodeCache.keys().next().value
FirstKey(m) == m[1].key

\* qrCodeCache.delete(k)
MapDelete(m, k) == SelectSeq(m, LAMBDA e : e.key # k)

\* qrCodeCache.set(k, v)
MapSet(m, k, v) ==
    IF MapHas(m, k)
    THEN [i \in 1 .. Len(m) |-> IF m[i].key = k THEN [key |-> k, value |-> v] ELSE m[i]]
    ELSE Append(m, [key |-> k, value |-> v])

\* a bug: the cache check always misses
CacheHitNever(m, k) == FALSE

\* line 366: if (qrCodeCache.has(pixCode))
CacheHit(m, k) == MapHas(m, k)

\* a bug: > instead of >=
CacheFullOffByOne(m) == Len(m) > Cap

\* qrCodeCache.size >= 100
CacheFull(m) == Len(m) >= Cap

\* a bug: the newest key is taken instead of the first
EvictedKeyNewest(m) == IF CacheFull(m) THEN m[Len(m)].key ELSE 0

\* the key lines 382-385 delete: firstKey when the cache is full, else none (0)
EvictedKey(m) == IF CacheFull(m) THEN FirstKey(m) ELSE 0

\* lines 382-386: if (size >= 100) { delete first key }  set(pixCode, dataURL)
Store(m, k, v) ==
    LET afterEvict == IF CacheFull(m) THEN MapDelete(m, EvictedKey(m)) ELSE m
    IN  MapSet(afterEvict, k, v)

(***************************************************************************)
(* The parts of the state a specification does not use stay as they are.   *)
(***************************************************************************)
CrcIdle ==
    /\ data = <<>>
    /\ idx = 1
    /\ crc = Int32(CrcInit)
    /\ crcPc = "done"
    /\ crcResult = 0
    /\ refCrc = 65535

PixIdle ==
    /\ amount = StringAmount(<<>>)
    /\ pixKeyEnv = <<>>
    /\ randBytes = <<>>
    /\ pixCode = <<>>
    /\ pixPc = "idle"
    /\ valid = FALSE
    /\ tamper = [pos |-> 0, old |-> 0]

NoOp == [op |-> "none", id |-> 0, key |-> 0, value |-> 0, evicted |-> 0,
         hadHit |-> FALSE]

CacheIdle ==
    /\ qrCodeCache = <<>>
    /\ pending = {}
    /\ nCalls = 0
    /\ lastOp = NoOp
    /\ renders = <<>>
    /\ insertedAt = <<>>
    /\ clock = 0
    /\ hitKeys = {}
    /\ failedKeys = {}
    /\ inOrder = TRUE

(***************************************************************************)
(* Specification SpecCrc: calculateCRC16 run on every string of at most    *)
(* MaxCrcLen characters over CrcAlphabet.                                  *)
(***************************************************************************)
\* NUL, "1", "A", 0xFF, 0x141 (low byte "A"), 0x20AC (euro sign), 0xFFFF
CrcAlphabet == {0, 49, 65, 255, 321, 8364, 65535}

RECURSIVE StringsUpTo(_, _)
StringsUpTo(alphabet, n) ==
    IF n = 0 THEN {<<>>}
    ELSE LET shorter == StringsUpTo(alphabet, n - 1)
         IN  shorter \cup {Append(s, c) : s \in shorter, c \in alphabet}

CrcInitState ==
    /\ data \in StringsUpTo(CrcAlphabet, MaxCrcLen)
    /\ idx = 1
    /\ crc = Int32(CrcInit)
    /\ crcPc = "loop"
    /\ crcResult = 0
    /\ refCrc = 65535
    /\ PixIdle
    /\ CacheIdle

\* one iteration of the outer loop
CrcStep ==
    /\ crcPc = "loop"
    /\ idx <= Len(data)
    /\ crc' = CrcChar(crc, data[idx])
    /\ refCrc' = RefChar(refCrc, data[idx])
    /\ idx' = idx + 1
    /\ UNCHANGED <<data, crcPc, crcResult, pixVars, cacheVars>>

\* return crc & 0xFFFF
CrcReturn ==
    /\ crcPc = "loop"
    /\ idx > Len(data)
    /\ crcResult' = Low16(crc)
    /\ crcPc' = "done"
    /\ UNCHANGED <<data, idx, crc, refCrc, pixVars, cacheVars>>

CrcNext == CrcStep \/ CrcReturn

SpecCrc == CrcInitState /\ [][CrcNext]_vars

(***************************************************************************)
(* C6: calculateCRC16 equals the reference CRC-16/CCITT-FALSE on every     *)
(* input (also the empty string and characters above 0xFF), although the   *)
(* code masks only at the end; the result lies in 0 .. 0xFFFF.  While the  *)
(* loop runs, the low 16 bits of the code's register are the reference     *)
(* register.                                                               *)
(***************************************************************************)
C6_CrcMatchesReference ==
    /\ Low16(crc) = refCrc
    /\ crcPc = "done" =>
          /\ crcResult = RefCrc16(data)
          /\ crcResult = calculateCRC16(data)
          /\ crcResult \in 0 .. 65535

\* a finished run over a string with a character above 0xFF whose register
\* has bits set above bit 15
C6_Witness ==
    /\ crcPc = "done"
    /\ \E i \in 1 .. Len(data) : data[i] > 255
    /\ crc[1] > 0
    /\ Len(data) = MaxCrcLen

(***************************************************************************)
(* Specification SpecPix: generatePixCode on a set of amounts, merchant    *)
(* keys and random draws; validatePixCode on what it returned; then one    *)
(* character of the prefix altered by a third party and validatePixCode    *)
(* again.                                                                  *)
(***************************************************************************)
AmountStrings == {
    Str("10.00"), Str("0.01"), Str("abc"),
    <<49, 8364>>,              \* "1" and the euro sign
    Repeat(49, 99), Repeat(49, 100) }

\* 10, 10.5, 0.01, -5
AmountNumbers == {1000, 1050, 1, -500}

Amounts ==
    {StringAmount(s) : s \in AmountStrings} \cup {NumberAmount(h) : h \in AmountNumbers}

PixKeyEnvs == {<<>>, Str("test@example.com"), Repeat(107, 80), Repeat(107, 81)}

RandomDraws == {Repeat(0, 16), Repeat(171, 16), [i \in 1 .. 16 |-> (i * 37) % 256]}

\* characters a third party writes over one of the payload: "1", U+0131
\* (dotless i, whose low byte is that of "1") and "Z"
TamperChars == {49, 305, 90}

PixInitOver(amounts, envs, draws) ==
    /\ amount \in amounts
    /\ pixKeyEnv \in envs
    /\ randBytes \in draws
    /\ pixCode = <<>>
    /\ pixPc = "input"
    /\ valid = FALSE
    /\ tamper = [pos |-> 0, old |-> 0]
    /\ CrcIdle
    /\ CacheIdle

\* a call generatePixCode(amount, description)
Generate ==
    /\ pixPc = "input"
    /\ pixCode' = generatePixCode(amount, <<>>, pixKeyEnv, randBytes)
    /\ pixPc' = "generated"
    /\ UNCHANGED <<amount, pixKeyEnv, randBytes, valid, tamper, crcVars, cacheVars>>

\* a call validatePixCode(pixCode)
Validate ==
    /\ pixPc \in {"generated", "tampered", "candidate"}
    /\ valid' = validatePixCode(pixCode)
    /\ pixPc' = CASE pixPc = "generated" -> "validated"
                   [] pixPc = "tampered"  -> "revalidated"
                   [] pixPc = "candidate" -> "judged"
    /\ UNCHANGED <<amount, pixKeyEnv, randBytes, pixCode, tamper, crcVars, cacheVars>>

\* outside the program: one character of the prefix of an accepted payload
\* is replaced by a different one, the last 4 characters are left alone
Tamper ==
    /\ pixPc = "validated"
    /\ valid
    /\ \E pos \in 1 .. Len(pixCode) - 4, c \in TamperChars :
          /\ c # pixCode[pos]
          /\ pixCode' = [pixCode EXCEPT ![pos] = c]
          /\ tamper' = [pos |-> pos, old |-> pixCode[pos]]
    /\ pixPc' = "tampered"
    /\ UNCHANGED <<amount, pixKeyEnv, randBytes, valid, crcVars, cacheVars>>

PixInit == PixInitOver(Amounts, PixKeyEnvs, RandomDraws)

PixNext == Generate \/ Validate

SpecPix == PixInit /\ [][PixNext]_vars

(***************************************************************************)
(* Specification SpecTamper: the same calls on fewer inputs, and every     *)
(* single-character alteration of the prefix of what was returned.         *)
(***************************************************************************)
TamperInit ==
    PixInitOver({StringAmount(Str("10.00")), NumberAmount(1050), StringAmount(<<49, 8364>>)},
                {<<>>, Str("test@example.com")},
                {[i \in 1 .. 16 |-> (i * 37) % 256]})

TamperNext == Generate \/ Validate \/ Tamper

SpecTamper == TamperInit /\ [][TamperNext]_vars

(***************************************************************************)
(* C1: round trip.  The string generatePixCode returns is accepted by      *)
(* validatePixCode, for every amount and every merchant key.               *)
(***************************************************************************)
C1_RoundTrip == pixPc = "validated" => valid

\* a validated payload of a number amount under a configured merchant key
C1_Witness ==
    /\ pixPc = "validated"
    /\ valid
    /\ amount.kind = "number"
    /\ pixKeyEnv # <<>>

(***************************************************************************)
(* C7, as claimed: any single-character replacement in the prefix of an    *)
(* accepted payload, with the last 4 characters unchanged, is rejected.    *)
(* Violated: calculateCRC16 uses only the low 8 bits of a character code,  *)
(* so "1" (0x31) replaced by U+0131 leaves the checksum as it was.         *)
(***************************************************************************)
C7_AnyReplacementRejected == pixPc = "revalidated" => ~valid

(***************************************************************************)
(* C7, amended: a single-character replacement in the prefix of an         *)
(* accepted payload is rejected whenever the new character differs from    *)
(* the old one in the low 8 bits of its code (always so between two        *)
(* characters below U+0100).                                               *)
(***************************************************************************)
C7_LowByteReplacementRejected ==
    (/\ pixPc = "revalidated"
     /\ pixCode[tamper.pos] % 256 # tamper.old % 256) => ~valid

\* a rejected alteration that wrote a character above 0xFF over the first
\* character of the payload or over the last one before the checksum
C7_Witness ==
    /\ pixPc = "revalidated"
    /\ ~valid
    /\ tamper.pos \in {1, Len(pixCode) - 4}
    /\ pixCode[tamper.pos] > 255
    /\ pixCode[tamper.pos] % 256 # tamper.old % 256

(***************************************************************************)
(* Reading a payload as the spec describes it.                             *)
(***************************************************************************)
IsDigit(c) == c >= 48 /\ c <= 57

IsUpperHex(c) == IsDigit(c) \/ (c >= 65 /\ c <= 70)

StartsWith(s, prefix) ==
    Len(s) >= Len(prefix) /\ SubSeq(s, 1, Len(prefix)) = prefix

Contains(s, sub) ==
    \E i \in 1 .. Len(s) - Len(sub) + 1 : SubSeq(s, i, i + Len(sub) - 1) = sub

\* the fields of s from position pos on, each a 2-character tag, a 2-digit
\* decimal length and that many value characters; ok is FALSE when the
\* reading stops before the end
RECURSIVE ReadFields(_, _, _)
ReadFields(s, pos, acc) ==
    IF pos > Len(s) THEN [ok |-> TRUE, fields |-> acc]
    ELSE IF pos + 3 > Len(s) \/ ~IsDigit(s[pos + 2]) \/ ~IsDigit(s[pos + 3])
         THEN [ok |-> FALSE, fields |-> acc]
    ELSE LET n == 10 * (s[pos + 2] - 48) + (s[pos + 3] - 48)
         IN  IF pos + 3 + n > Len(s) THEN [ok |-> FALSE, fields |-> acc]
             ELSE ReadFields(s, pos + 4 + n,
                      Append(acc, [tag   |-> SubSeq(s, pos, pos + 1),
                                   value |-> SubSeq(s, pos + 4, pos + 3 + n)]))

Tlv(s) == ReadFields(s, 1, <<>>)

\* the value of the first field with this tag, <<>> when there is none
RECURSIVE ValueOf(_, _)
ValueOf(fields, tag) ==
    IF fields = <<>> THEN <<>>
    ELSE IF Head(fields).tag = tag THEN Head(fields).value
    ELSE ValueOf(Tail(fields), tag)

\* the length prefixes generatePixCode writes, in the order of the payload
LengthPrefixes(amountStr, pixKey, txId) ==
    LET parts == PayloadParts(amountStr, pixKey, txId)
    IN  <<parts[2], parts[6], parts[10], parts[17], parts[20], parts[23],
          parts[26], parts[29], parts[31], parts[34]>>

Returned == pixPc \in {"generated", "validated"}

(***************************************************************************)
(* C8, as claimed: a field value of 100 or more characters makes           *)
(* generatePixCode fail before it returns anything, and no returned        *)
(* payload has a length prefix other than 2 decimal digits.  Violated: the *)
(* code has no guard, padStart(2, '0') leaves "100" as it is.              *)
(***************************************************************************)
C8_LengthGuard ==
    Returned =>
       LET amountStr == AmountStrOf(amount)
           pixKey    == PixKeyOf(pixKeyEnv)
           prefixes  == LengthPrefixes(amountStr, pixKey, TxIdOf(randBytes))
       IN  /\ Len(amountStr) <= 99
           /\ Len(pixKey) <= 99
           /\ Len(merchantName) <= 99
           /\ Len(merchantCity) <= 99
           /\ \A i \in 1 .. Len(prefixes) :
                 /\ Len(prefixes[i]) = 2
                 /\ \A j \in 1 .. 2 : IsDigit(prefixes[i][j])

(***************************************************************************)
(* C9, as claimed: for amount "10.00" and merchant identifier              *)
(* "test@example.com" the payload starts with "000201", contains           *)
(* "5303986", contains "5402" followed by "10.00", and ends with 4         *)
(* uppercase hex digits that validatePixCode accepts.  (The merchant name  *)
(* and city are constants of the code, "DELTA SILK PRINT" and              *)
(* "SAO PAULO".)  Violated: the code writes "53986" and "540510.00".       *)
(***************************************************************************)
C9_ConcreteVector ==
    (/\ pixPc = "validated"
     /\ amount = StringAmount(Str("10.00"))
     /\ pixKeyEnv = Str("test@example.com")) =>
        /\ StartsWith(pixCode, Str("000201"))
        /\ Contains(pixCode, Str("5303986"))
        /\ Contains(pixCode, Str("5402") \o Str("10.00"))
        /\ \A i \in Len(pixCode) - 3 .. Len(pixCode) : IsUpperHex(pixCode[i])
        /\ valid

(***************************************************************************)
(* C10, as claimed: every returned payload reads completely as fields of   *)
(* 2-character tag, 2-digit length and value, with the top-level tags      *)
(* 00, 26, 52, 53, 54, 58, 59, 60, 62, 63 in this order and the values     *)
(* "01", "0000", "986" and "BR" for 00, 52, 53 and 58.  Violated: the code *)
(* writes "12" after "000201" and no length after the tags 52 and 53.      *)
(***************************************************************************)
TopLevelTags == <<Str("00"), Str("26"), Str("52"), Str("53"), Str("54"),
                  Str("58"), Str("59"), Str("60"), Str("62"), Str("63")>>

C10_WellFormedTlv ==
    Returned =>
       LET read == Tlv(pixCode)
       IN  /\ read.ok
           /\ [i \in 1 .. Len(read.fields) |-> read.fields[i].tag] = TopLevelTags
           /\ ValueOf(read.fields, Str("00")) = Str("01")
           /\ ValueOf(read.fields, Str("52")) = Str("0000")
           /\ ValueOf(read.fields, Str("53")) = Str("986")
           /\ ValueOf(read.fields, Str("58")) = Str("BR")

(***************************************************************************)
(* Specification SpecCache: calls of generatePixQRCode interleaved at the  *)
(* await.  JavaScript runs a call without interruption up to its await     *)
(* and again from the await to its end, so a call is two steps: Call (the  *)
(* cache check, and on a miss the start of the render) and Resolve or      *)
(* Reject (the render's outcome and what follows it).                      *)
(*                                                                         *)
(* The cache starts empty, or as it is after payloads 1 .. n were rendered *)
(* one after another by earlier calls (call i rendered payload i and its   *)
(* data URL is named -i), for the n of WarmSizes.                          *)
(***************************************************************************)
WarmSizes == {0, Cap - 1, Cap}

\* the payloads the observed calls ask for: the two first stored by the
\* earlier calls and two that no earlier call asked for
Payloads == {1, 2, Cap + 1, Cap + 2}

AllPayloads == 1 .. Cap + 2

\* the cache m after payloads from .. to were rendered one after the other
\* (folded in two halves, the left one first, as CrcLoop is)
RECURSIVE RenderInOrder(_, _, _)
RenderInOrder(m, from, to) ==
    IF from > to THEN m
    ELSE IF from = to THEN Store(m, from, 0 - from)
    ELSE LET mid  == (from + to) \div 2
             left == RenderInOrder(m, from, mid)
         IN  IF left = left THEN RenderInOrder(left, mid + 1, to) ELSE left

CacheInit ==
    /\ \E n \in WarmSizes :
          /\ qrCodeCache = RenderInOrder(<<>>, 1, n)
          /\ insertedAt = [k \in AllPayloads |-> IF k <= n THEN k ELSE 0]
          /\ renders = [k \in AllPayloads |-> IF k <= n THEN 1 ELSE 0]
          /\ clock = n
    /\ pending = {}
    /\ nCalls = 0
    /\ lastOp = NoOp
    /\ hitKeys = {}
    /\ failedKeys = {}
    /\ inOrder = TRUE
    /\ CrcIdle
    /\ PixIdle

\* generatePixQRCode(k) up to its return (hit) or its await (miss)
Call ==
    /\ nCalls < MaxCalls
    /\ \E k \in Payloads :
          /\ nCalls' = nCalls + 1
          /\ failedKeys' = failedKeys \ {k}
          /\ IF CacheHit(qrCodeCache, k)
             THEN \* return qrCodeCache.get(pixCode)
                  /\ lastOp' = [op |-> "hit", id |-> nCalls + 1, key |-> k,
                                value |-> MapGet(qrCodeCache, k), evicted |-> 0,
                                hadHit |-> FALSE]
                  /\ hitKeys' = hitKeys \cup {k}
                  /\ inOrder' = FALSE
                  /\ UNCHANGED <<pending, renders>>
             ELSE \* QRCode.toDataURL(pixCode, ...) is invoked and awaited
                  /\ lastOp' = [op |-> "miss", id |-> nCalls + 1, key |-> k,
                                value |-> 0, evicted |-> 0, hadHit |-> FALSE]
                  /\ pending' = pending \cup {[id |-> nCalls + 1, key |-> k]}
                  /\ renders' = [renders EXCEPT ![k] = @ + 1]
                  /\ inOrder' = (inOrder /\ pending = {} /\ insertedAt[k] = 0)
                  /\ UNCHANGED hitKeys
    /\ UNCHANGED <<qrCodeCache, insertedAt, clock, crcVars, pixVars>>

\* the awaited render succeeds: lines 381-388
Resolve ==
    \E c \in pending :
       LET evicted == EvictedKey(qrCodeCache)
           entered == c.key \notin (MapKeys(qrCodeCache) \ {evicted})
       IN  /\ qrCodeCache' = Store(qrCodeCache, c.key, c.id)
           /\ pending' = pending \ {c}
           /\ lastOp' = [op |-> "stored", id |-> c.id, key |-> c.key,
                         value |-> c.id, evicted |-> evicted,
                         hadHit |-> evicted \in hitKeys]
           /\ clock' = IF entered THEN clock + 1 ELSE clock
           /\ insertedAt' = IF entered THEN [insertedAt EXCEPT ![c.key] = clock + 1]
                            ELSE insertedAt
           /\ hitKeys' = IF entered THEN hitKeys \ {evicted, c.key}
                         ELSE hitKeys \ {evicted}
           /\ UNCHANGED <<nCalls, renders, failedKeys, inOrder, crcVars, pixVars>>

\* the awaited render fails: the catch block logs and throws
\* new Error("Failed to generate QR code")
Reject ==
    \E c \in pending :
       /\ pending' = pending \ {c}
       /\ lastOp' = [op |-> "failed", id |-> c.id, key |-> c.key,
                     value |-> 0, evicted |-> 0, hadHit |-> FALSE]
       /\ failedKeys' = failedKeys \cup {c.key}
       /\ inOrder' = FALSE
       /\ UNCHANGED <<qrCodeCache, nCalls, renders, insertedAt, clock, hitKeys,
                      crcVars, pixVars>>

CacheNext == Call \/ Resolve \/ Reject

SpecCache == CacheInit /\ [][CacheNext]_vars

(***************************************************************************)
(* C2: the cache never holds more than 100 entries, whatever the calls and *)
(* their interleaving.                                                     *)
(***************************************************************************)
C2_CacheBounded ==
    /\ Len(qrCodeCache) <= Cap
    /\ Cardinality(MapKeys(qrCodeCache)) = Len(qrCodeCache)

\* a full cache right after a store that evicted, with another render of
\* the same payload still in flight
C2_Witness ==
    /\ Len(qrCodeCache) = Cap
    /\ lastOp.op = "stored"
    /\ lastOp.evicted # 0
    /\ \E c \in pending : c.key = lastOp.key

(***************************************************************************)
(* C3: strict FIFO eviction.  In every step at most one entry leaves the   *)
(* cache, a store evicts only the entry that entered the cache earliest    *)
(* among those present, whether or not it had cache hits since, and a hit  *)
(* changes neither the entries nor their order.  After Cap + 1 distinct    *)
(* payloads were rendered one after another into an empty cache, the       *)
(* first one is absent and the Cap others are present.                     *)
(***************************************************************************)
\* k entered the cache before every other entry now present
Oldest(k) ==
    /\ k \in MapKeys(qrCodeCache)
    /\ \A j \in MapKeys(qrCodeCache) : insertedAt[k] <= insertedAt[j]

FifoStep ==
    /\ \A k \in MapKeys(qrCodeCache) \ MapKeys(qrCodeCache') : Oldest(k)
    /\ Cardinality(MapKeys(qrCodeCache) \ MapKeys(qrCodeCache')) <= 1
    /\ (lastOp'.op = "stored" /\ lastOp'.evicted # 0) => Oldest(lastOp'.evicted)
    /\ (lastOp'.op = "hit" /\ nCalls' # nCalls) => qrCodeCache' = qrCodeCache
    /\ (inOrder' /\ clock' = Cap + 1 /\ pending' = {}) =>
          /\ MapKeys(qrCodeCache') = {k \in AllPayloads : insertedAt'[k] >= 2}
          /\ \A k \in AllPayloads :
                insertedAt'[k] = 1 => k \notin MapKeys(qrCodeCache')
          /\ Len(qrCodeCache') = Cap

\* C3: every step is a strict-FIFO step
C3_FifoEviction == [][FifoStep]_vars

\* a store into the full cache that evicted the first-inserted entry
\* although that entry had a cache hit after all the others were stored
C3_Witness ==
    /\ lastOp.op = "stored"
    /\ lastOp.evicted = 1
    /\ lastOp.hadHit
    /\ 1 \notin MapKeys(qrCodeCache)
    /\ Len(qrCodeCache) = Cap

(***************************************************************************)
(* C4: a cache hit avoids the render.  The renderer is invoked only for a  *)
(* payload that is not in the cache, so after a successful render of X a   *)
(* second call for X, with X still cached, leaves the number of renders of *)
(* X as it was; the hit returns the cached output and does not change the  *)
(* cache.                                                                  *)
(***************************************************************************)
HitStep ==
    /\ \A k \in Payloads :
          k \in MapKeys(qrCodeCache) => renders'[k] = renders[k]
    /\ \A k \in Payloads :
          (nCalls' # nCalls /\ lastOp'.key = k /\ k \in MapKeys(qrCodeCache)) =>
              /\ lastOp'.op = "hit"
              /\ lastOp'.value = MapGet(qrCodeCache, k)
              /\ qrCodeCache' = qrCodeCache
              /\ pending' = pending

\* C4: in every step the renderer runs only on a miss and a hit returns the
\* cached output
C4_HitAvoidsRender == [][HitStep]_vars

\* a payload the observed calls rendered once and stored, then asked for again
C4_Witness ==
    /\ lastOp.op = "hit"
    /\ lastOp.value > 0
    /\ lastOp.value < lastOp.id
    /\ renders[lastOp.key] = 1
    /\ pending = {}

(***************************************************************************)
(* C5, as claimed: when the render of a payload fails, the call raises an  *)
(* error, the cache and its order are as before the call, and the next     *)
(* call with the same payload invokes the renderer again.  Violated: two   *)
(* calls for one payload both miss, one render succeeds and is stored, the *)
(* other fails; the next call hits.                                        *)
(***************************************************************************)
FailureStep ==
    /\ (lastOp'.op = "failed" /\ lastOp' # lastOp) => qrCodeCache' = qrCodeCache
    /\ \A k \in failedKeys :
          (nCalls' # nCalls /\ lastOp'.key = k) =>
              /\ lastOp'.op = "miss"
              /\ renders'[k] = renders[k] + 1

\* C5, as claimed: a failed render leaves the cache alone and the next call
\* for that payload renders again
C5_FailureNotCached == [][FailureStep]_vars

(***************************************************************************)
(* C11, as claimed: in every returned payload the length prefix of field   *)
(* 26 is the number of characters of its encoded sub-fields 00 (GUI) and   *)
(* 01 (key), headers included, for every key length, and the length prefix *)
(* of field 62 is the encoded length of its sub-field 05.  Violated: the   *)
(* code writes pixKey.length + 19 for field 26, the sub-fields take        *)
(* pixKey.length + 22 characters.                                          *)
(***************************************************************************)
\* the number a string of decimal digits denotes
RECURSIVE DecValue(_)
DecValue(s) ==
    IF s = <<>> THEN 0 ELSE 10 * DecValue(SubSeq(s, 1, Len(s) - 1)) + (s[Len(s)] - 48)

C11_NestedLengths ==
    Returned =>
       LET parts == PayloadParts(AmountStrOf(amount), PixKeyOf(pixKeyEnv),
                                 TxIdOf(randBytes))
       IN  /\ DecValue(parts[6]) = Len(Join(SubSeq(parts, 7, 11)))
           /\ DecValue(parts[29]) = Len(Join(SubSeq(parts, 30, 32)))

(***************************************************************************)
(* C12: every returned payload ends with "6304" and 4 uppercase hex        *)
(* digits, which denote the checksum of the whole string before them,      *)
(* "6304" included.                                                        *)
(***************************************************************************)
\* the number an uppercase hex digit denotes
HexDigitValue(c) == IF c <= 57 THEN c - 48 ELSE c - 55

C12_ChecksumField ==
    Returned =>
       LET n == Len(pixCode)
       IN  /\ n >= 8
           /\ SubSeq(pixCode, n - 7, n - 4) = Str("6304")
           /\ \A i \in n - 3 .. n : IsUpperHex(pixCode[i])
           /\ 4096 * HexDigitValue(pixCode[n - 3]) + 256 * HexDigitValue(pixCode[n - 2])
                 + 16 * HexDigitValue(pixCode[n - 1]) + HexDigitValue(pixCode[n])
              = calculateCRC16(SubSeq(pixCode, 1, n - 4))

\* a returned payload whose checksum has a leading zero and a letter digit
C12_Witness ==
    /\ Returned
    /\ pixCode[Len(pixCode) - 3] = 48
    /\ \E i \in Len(pixCode) - 2 .. Len(pixCode) : pixCode[i] >= 65

(***************************************************************************)
(* validatePixCode on arbitrary strings: the candidates are every string   *)
(* of up to MaxBaseLen characters followed by nothing, by the right        *)
(* checksum in uppercase, by the right checksum in lowercase, or by        *)
(* "0000".  The right checksum comes from the reference algorithm and a    *)
(* digit table, not from the functions under test.                         *)
(***************************************************************************)
MaxBaseLen == 7

CandidateAlphabet == {49, 8364}

UpperDigits == Str("0123456789ABCDEF")
LowerDigits == Str("0123456789abcdef")

\* the 4 hex digits of c < 65536, most significant first
RefHex4(c, digits) ==
    << digits[(c \div 4096) + 1], digits[((c \div 256) % 16) + 1],
       digits[((c \div 16) % 16) + 1], digits[(c % 16) + 1] >>

SuffixKinds == {"none", "upper", "lower", "zeros"}

Suffix(base, kind) ==
    CASE kind = "none"  -> <<>>
      [] kind = "upper" -> RefHex4(RefCrc16(base), UpperDigits)
      [] kind = "lower" -> RefHex4(RefCrc16(base), LowerDigits)
      [] kind = "zeros" -> Str("0000")

Candidates ==
    { base \o Suffix(base, kind) :
         base \in StringsUpTo(CandidateAlphabet, MaxBaseLen), kind \in SuffixKinds }

ValidateInit ==
    /\ amount = StringAmount(<<>>)
    /\ pixKeyEnv = <<>>
    /\ randBytes = <<>>
    /\ pixCode \in Candidates
    /\ pixPc = "candidate"
    /\ valid = FALSE
    /\ tamper = [pos |-> 0, old |-> 0]
    /\ CrcIdle
    /\ CacheIdle

ValidateNext == Validate

SpecValidate == ValidateInit /\ [][ValidateNext]_vars

(***************************************************************************)
(* C13: validatePixCode returns a boolean for every string, false for      *)
(* every string shorter than 10 characters, and for a string of 10 or more *)
(* characters true exactly when its last 4 characters equal the 4-digit    *)
(* uppercase zero-padded hex rendering of the checksum of the characters   *)
(* before them; a correct checksum in lowercase is rejected.               *)
(***************************************************************************)
C13_ValidateExact ==
    pixPc = "judged" =>
       LET n == Len(pixCode)
       IN  /\ valid \in BOOLEAN
           /\ n < 10 => valid = FALSE
           /\ n >= 10 =>
                 (valid <=> SubSeq(pixCode, n - 3, n)
                               = RefHex4(RefCrc16(SubSeq(pixCode, 1, n - 4)), UpperDigits))

\* a string of 10 or more characters that ends with its right checksum in
\* lowercase, which has a letter digit, was rejected
C13_Witness ==
    /\ pixPc = "judged"
    /\ Len(pixCode) >= 10
    /\ LET n == Len(pixCode)
           c == RefCrc16(SubSeq(pixCode, 1, n - 4))
       IN  /\ SubSeq(pixCode, n - 3, n) = RefHex4(c, LowerDigits)
           /\ RefHex4(c, LowerDigits) # RefHex4(c, UpperDigits)
    /\ valid = FALSE

(***************************************************************************)
(* C14, as claimed: the cache check, the render and the insert of one call *)
(* are one unit per payload, so no two calls for the same payload are ever *)
(* both past a missed cache check with their renders in flight.  Violated: *)
(* the check and the insert are on either side of the await, and a second  *)
(* call for the payload runs its check in between.                         *)
(***************************************************************************)
C14_PerKeyAtomicity ==
    \A c1 \in pending : \A c2 \in pending : c1.key = c2.key => c1 = c2

(***************************************************************************)
(* C16, as claimed: a call that stores its result evicts an entry only if  *)
(* the payload was not in the cache and the cache held 100 entries, and so *)
(* never decreases the number of entries.  Violated: the size test does    *)
(* not look at whether the payload is present, so the second of two calls  *)
(* that both missed evicts from a full cache and then overwrites.          *)
(***************************************************************************)
OverflowStep ==
    (lastOp' # lastOp /\ lastOp'.op = "stored") =>
       /\ Len(qrCodeCache') >= Len(qrCodeCache)
       /\ Len(qrCodeCache') < Len(qrCodeCache) + 1
             => \/ lastOp'.key \in MapKeys(qrCodeCache)
                \/ Len(qrCodeCache) = Cap
       /\ lastOp'.evicted \notin MapKeys(qrCodeCache')
             /\ lastOp'.evicted \in MapKeys(qrCodeCache)
             => /\ lastOp'.key \notin MapKeys(qrCodeCache)
                /\ Len(qrCodeCache) = Cap

C16_EvictOnlyOnOverflow == [][OverflowStep]_vars

(***************************************************************************)
(* POST /api/pix/qrcode (server/routes.ts): requests are handled one after *)
(* the other; pixPc is the position of the handler, "request" before it    *)
(* runs and "sent<status>" once it has responded.                          *)
(***************************************************************************)
MaxRequests == 3

\* req.body without an amount member
UndefinedAmount == [kind |-> "undefined", str |-> <<>>, num |-> 0]

RouteAmounts ==
    { UndefinedAmount, StringAmount(<<>>), StringAmount(Str("abc")),
      StringAmount(Str("10.00")), NumberAmount(0), NumberAmount(1050) }

RouteDraws == {Repeat(171, 16)}

\* !amount
Falsy(amt) ==
    \/ amt.kind = "undefined"
    \/ amt.kind = "string" /\ amt.str = <<>>
    \/ amt.kind = "number" /\ amt.num = 0

RouteRequest(amounts) ==
    /\ amount \in amounts
    /\ pixKeyEnv = <<>>
    /\ randBytes \in RouteDraws
    /\ pixCode = <<>>
    /\ pixPc = "request"
    /\ valid = FALSE
    /\ tamper = [pos |-> 0, old |-> 0]

RouteInit ==
    /\ RouteRequest(RouteAmounts)
    /\ CrcIdle
    /\ CacheIdle

\* the handler up to its first response or to the await of the render
RoutePost ==
    /\ pixPc = "request"
    /\ nCalls' = nCalls + 1
    /\ \E isAuthenticated \in BOOLEAN :
          IF ~isAuthenticated
          THEN /\ pixPc' = "sent401"
               /\ UNCHANGED <<pixCode, pending>>
          ELSE IF Falsy(amount)
          THEN /\ pixPc' = "sent400"
               /\ UNCHANGED <<pixCode, pending>>
          ELSE LET code == generatePixCode(amount, <<>>, pixKeyEnv, randBytes)
               IN  /\ pixCode' = code
                   /\ IF CacheHit(qrCodeCache, code)
                      THEN /\ pixPc' = "sent200"
                           /\ UNCHANGED pending
                      ELSE /\ pixPc' = "awaiting"
                           /\ pending' = {[id |-> nCalls + 1, key |-> code]}
    /\ UNCHANGED <<amount, pixKeyEnv, randBytes, valid, tamper, qrCodeCache,
                   lastOp, renders, insertedAt, clock, hitKeys, failedKeys,
                   inOrder, crcVars>>

\* the render succeeded: the result is cached and res.json sends it
RouteRendered ==
    /\ pixPc = "awaiting"
    /\ \E c \in pending :
          /\ qrCodeCache' = Store(qrCodeCache, c.key, c.id)
          /\ pending' = pending \ {c}
    /\ pixPc' = "sent200"
    /\ UNCHANGED <<amount, pixKeyEnv, randBytes, pixCode, valid, tamper, nCalls,
                   lastOp, renders, insertedAt, clock, hitKeys, failedKeys,
                   inOrder, crcVars>>

\* the render failed: generatePixQRCode throws, the catch block sends 500
RouteRenderFailed ==
    /\ pixPc = "awaiting"
    /\ pending' = {}
    /\ pixPc' = "sent500"
    /\ UNCHANGED <<amount, pixKeyEnv, randBytes, pixCode, valid, tamper, nCalls,
                   qrCodeCache, lastOp, renders, insertedAt, clock, hitKeys,
                   failedKeys, inOrder, crcVars>>

\* the next request arrives
RouteNextRequest ==
    /\ pixPc \in {"sent200", "sent400", "sent401", "sent500"}
    /\ nCalls < MaxRequests
    /\ amount' \in RouteAmounts
    /\ randBytes' \in RouteDraws
    /\ pixCode' = <<>>
    /\ pixPc' = "request"
    /\ UNCHANGED <<pixKeyEnv, valid, tamper, cacheVars, crcVars>>

RouteNext == RoutePost \/ RouteRendered \/ RouteRenderFailed \/ RouteNextRequest

SpecRoute == RouteInit /\ [][RouteNext]_vars

(***************************************************************************)
(* C15, as claimed: a request whose amount is missing or is not a numeric  *)
(* decimal gets an error response, no payload is composed for it and the   *)
(* render cache is neither read nor changed for it; no payload that        *)
(* contains a non-numeric amount exists.  Violated: the handler only tests *)
(* !amount, so "abc" is composed into a payload, rendered and cached.      *)
(***************************************************************************)
\* digits, with at most one "." between digits
IsDecimalString(s) ==
    /\ s # <<>>
    /\ \A i \in 1 .. Len(s) : IsDigit(s[i]) \/ s[i] = 46
    /\ IsDigit(s[1]) /\ IsDigit(s[Len(s)])
    /\ Cardinality({i \in 1 .. Len(s) : s[i] = 46}) <= 1

NumericAmount(amt) ==
    \/ amt.kind = "number"
    \/ amt.kind = "string" /\ IsDecimalString(amt.str)

C15_AmountRejected ==
    (~NumericAmount(amount) /\ pixPc # "request") =>
       /\ pixPc \in {"sent400", "sent401"}
       /\ pixCode = <<>>
       /\ pending = {}

====
